---- MODULE Spec2Model ----
(***************************************************************************)
(* Model of CountDownTimerESP32.ino: the timer state machine driven by     *)
(* loop(), the Bluetooth message buffer, the helper functions Start, Stop  *)
(* and Reset, and the rendering of the four digits by setDigit.            *)
(*                                                                         *)
(* The strip.  Every iteration of loop() ends with four setDigit calls     *)
(* that overwrite all NUM_LEDS = 4 * NUM_LEDS_PER_DIGIT cells, so leds[]   *)
(* after an iteration is Render(timeValue, timeHue, g), a function of the  *)
(* two variables kept here and of what out-of-range reads of digits[]      *)
(* return (g).  The strip itself is a state variable only where setDigit   *)
(* is exercised on its own (SpecDigit).                                    *)
(*                                                                         *)
(* Time.  The sketch keeps all times in milliseconds in unsigned long      *)
(* (32 bit on the ESP32) and the displayed value in long (32 bit).  TLC's  *)
(* integers are 32 bit signed, so the model counts time in steps of 4 ms:  *)
(* a model value x stands for 4*x ms, the 32-bit wrap-around 2^32 ms is    *)
(* 2^30 steps, one minute (60000 ms) is 15000 steps.  Every clock reading  *)
(* of the model is a multiple of 4 ms, so the scaling is exact for +, -,   *)
(* the multiplication by 60000 and the divisions by 1000 and 60000.        *)
(***************************************************************************)
EXTENDS Integers, Sequences, FiniteSets, TLC

VARIABLES
    state,                  \* State state (line 99)
    mode,                   \* Mode mode (line 102)
    timerDuration,          \* unsigned long timerDuration (line 92)
    startTime,              \* unsigned long startTime (line 89)
    cumulativeElapsedTime,  \* unsigned long cumulativeElapsedTime (line 95)
    message,                \* String message (line 80), a sequence of characters
    timeValue,              \* static long timeValue (line 178)
    timeHue,                \* int timeHue (line 180), value at the render
    pressed,                \* the buttons whose pressed() is true after update()
    now,                    \* the reading of millis() in the latest iteration
    began,                  \* history: the state the latest iteration found
    msgCtx,                 \* history: how the current message came about
    sessionSum,             \* history: sum of (stop time - start time) of the sessions
                            \* ended by Stop() since Duration was last adjusted
    pc,                     \* "loop" in the sketch; call/return points in the
                            \* specifications that exercise one function
    entry,                  \* there only: the arguments / state at the call
    ret                     \* there only: the result of the call

vars == <<state, mode, timerDuration, startTime, cumulativeElapsedTime, message,
          timeValue, timeHue, pressed, now, began, msgCtx, sessionSum,
          pc, entry, ret>>

-----------------------------------------------------------------------------
(* Bounds *)

\* the clock stops advancing after this many minutes
MaxMinutes == 3

-----------------------------------------------------------------------------
(* Program constants *)

NUM_LEDS_PER_DIGIT == 30
NUM_LEDS == 120

\* milliseconds to model time steps (4 ms each)
Ms(x) == x \div 4

\* 2^32 ms, the range of unsigned long, in time steps
ULongRange == 2^30

\* const uint32_t digits[10]
digits ==
    [v \in 0..9 |->
        CASE v = 0 -> \b00011111111111101111111111110000
          [] v = 1 -> \b00011110000000000000000011110000
          [] v = 2 -> \b00000001111111100000111111111111
          [] v = 3 -> \b00011111111000000000111111111111
          [] v = 4 -> \b00011110000000001111000011111111
          [] v = 5 -> \b00011111111000001111111100001111
          [] v = 6 -> \b00011111111111101111111100001111
          [] v = 7 -> \b00011110000000000000111111110000
          [] v = 8 -> \b00011111111111101111111111111111
          [] v = 9 -> \b00011111111000001111111111111111]

-----------------------------------------------------------------------------
(* Arithmetic of the C types *)

\* unsigned long arithmetic wraps modulo 2^32 ms
UAdd(a, b) == (a + b) % ULongRange
USub(a, b) == (a - b) % ULongRange

\* conversion unsigned long -> long (two's complement)
ToLong(u) == IF u >= ULongRange \div 2 THEN u - ULongRange ELSE u

\* conversion long -> unsigned long
ToULong(x) == x % ULongRange

\* C integer division truncates toward zero, C remainder has the sign of the dividend
CDiv(a, b) == IF a >= 0 THEN a \div b ELSE -((-a) \div b)
CMod(a, b) == a - b * CDiv(a, b)

\* bitRead(value, bit)
bitRead(value, bit) == (value \div (2^bit)) % 2

-----------------------------------------------------------------------------
(* String::toInt(), i.e. atol(): leading white space, an optional sign, then
   decimal digits up to the first character that is not a digit *)

IsDigit(c) == c \in {"0", "1", "2", "3", "4", "5", "6", "7", "8", "9"}

DigitVal(c) ==
    CASE c = "0" -> 0 [] c = "1" -> 1 [] c = "2" -> 2 [] c = "3" -> 3
      [] c = "4" -> 4 [] c = "5" -> 5 [] c = "6" -> 6 [] c = "7" -> 7
      [] c = "8" -> 8 [] c = "9" -> 9

IsSpace(c) == c \in {" ", "\t", "\r", "\n"}

RECURSIVE ParseDigits(_, _, _)
ParseDigits(s, i, acc) ==
    IF i > Len(s) \/ ~IsDigit(s[i]) THEN acc
    ELSE ParseDigits(s, i + 1, acc * 10 + DigitVal(s[i]))

RECURSIVE SkipSpace(_, _)
SkipSpace(s, i) ==
    IF i <= Len(s) /\ IsSpace(s[i]) THEN SkipSpace(s, i + 1) ELSE i

toInt(s) ==
    LET i == SkipSpace(s, 1) IN
    IF i > Len(s) THEN 0
    ELSE IF s[i] = "-" THEN -ParseDigits(s, i + 1, 0)
    ELSE IF s[i] = "+" THEN ParseDigits(s, i + 1, 0)
    ELSE ParseDigits(s, i, 0)

-----------------------------------------------------------------------------
(* The engine fields the helper functions work on, as one record *)

Engine == [state |-> state, mode |-> mode, timerDuration |-> timerDuration,
           startTime |-> startTime,
           cumulativeElapsedTime |-> cumulativeElapsedTime]

\* void Start(), millis() reading t
Start(e, t) == [e EXCEPT !.state = "Active", !.startTime = t]

\* Stop() that adds the session's time twice
Stop_AddsTwice(e, t) ==
    [e EXCEPT !.cumulativeElapsedTime =
                  UAdd(UAdd(@, USub(t, e.startTime)), USub(t, e.startTime)),
              !.state = "Inactive"]

\* void Stop(), millis() reading t
Stop(e, t) ==
    [e EXCEPT !.cumulativeElapsedTime = UAdd(@, USub(t, e.startTime)),
              !.state = "Inactive"]

\* Reset() that leaves the accumulated time in place
Reset_KeepsElapsed(e) == [e EXCEPT !.state = "Inactive"]

\* Reset() that forgets to leave the Active state
Reset_KeepsState(e) == [e EXCEPT !.cumulativeElapsedTime = 0]

\* void Reset()
Reset(e) == [e EXCEPT !.cumulativeElapsedTime = 0, !.state = "Inactive"]

-----------------------------------------------------------------------------
(* Rendering *)

\* CHSV(hue, sat, val): the three fields are uint8_t
CHSV(h, s, v) == [h |-> h % 256, s |-> s % 256, v |-> v % 256]

\* values the read digits[val] can return when val is outside 0..9 (the low
\* 30 bits of whatever lies next to the table)
GarbageMasks == {0, 2^NUM_LEDS_PER_DIGIT - 1}

\* digits[val]; oob is what an out-of-range read returns
DigitMask(val, oob) == IF val \in 0..9 THEN digits[val] ELSE oob

\* setDigit that reads the mask one bit off
setDigit_BitOffByOne(l, display, val, colour, oob) ==
    [k \in 0..(NUM_LEDS - 1) |->
        LET i == k - display * NUM_LEDS_PER_DIGIT IN
        IF i \in 0..(NUM_LEDS_PER_DIGIT - 1)
        THEN [colour EXCEPT !.v = bitRead(DigitMask(val, oob), i + 1) * 255]
        ELSE l[k]]

\* void setDigit(int display, int val, CHSV colour), applied to the strip l.
\* The strip is kept as the CHSV assigned to each LED.
setDigit(l, display, val, colour, oob) ==
    [k \in 0..(NUM_LEDS - 1) |->
        LET i == k - display * NUM_LEDS_PER_DIGIT IN
        IF i \in 0..(NUM_LEDS_PER_DIGIT - 1)
        THEN [colour EXCEPT !.v = bitRead(DigitMask(val, oob), i) * 255]
        ELSE l[k]]

\* int seconds = (timeValue / 1000) % 60;  int minutes = timeValue / 60000;
Seconds(tv) == CMod(CDiv(tv, Ms(1000)), 60)
Minutes(tv) == CDiv(tv, Ms(60000))

\* the val arguments of the four setDigit calls, slot 0 first
DigitArgs(tv) ==
    <<CMod(CDiv(Minutes(tv), 10), 10), CMod(Minutes(tv), 10),
      CMod(CDiv(Seconds(tv), 10), 10), CMod(Seconds(tv), 10)>>

\* what the reads digits[val] of one render return for the val outside 0..9:
\* one value per index read
OutOfRangeReads(tv) ==
    [{DigitArgs(tv)[j] : j \in 1..4} \ (0..9) -> GarbageMasks]

\* the strip before the first render: CRGB leds[NUM_LEDS] is zero-initialised
Dark == [k \in 0..(NUM_LEDS - 1) |-> CHSV(0, 0, 0)]

\* the #ifdef DISPLAY_MMSS block: slots 3, 2, 1, 0 in this order
Render(tv, hue, g) ==
    LET a  == DigitArgs(tv)
        l  == Dark
        c  == CHSV(hue, 255, 255)
        oob(val) == IF val \in DOMAIN g THEN g[val] ELSE 0
        l3 == setDigit(l, 3, a[4], c, oob(a[4]))
        l2 == setDigit(l3, 2, a[3], c, oob(a[3]))
        l1 == setDigit(l2, 1, a[2], c, oob(a[2]))
    IN  setDigit(l1, 0, a[1], c, oob(a[1]))

\* long map(long x, long in_min, long in_max, long out_min, long out_max)
\* of the ESP32 core; the product is taken in 32 bits
map(x, in_min, in_max, out_min, out_max) ==
    LET run == in_max - in_min IN
    IF run = 0 THEN -1
    ELSE CDiv(ToLong(((x - in_min) * (out_max - out_min)) % ULongRange), run)
           + out_min

\* sampled results of beatsin8(20, 0, 40)
IdleHues == {0, 40}

-----------------------------------------------------------------------------
(* Inputs *)

\* the message bodies the Bluetooth peer sends, one character at a time; it
\* may send the newline at any point
Messages == {<<"s">>, <<"2">>, <<"5">>, <<"2", "x">>, <<"-", "1">>}

\* the characters the Bluetooth peer sends
Alphabet == UNION {{w[i] : i \in 1..Len(w)} : w \in Messages} \cup {"\n"}

Buttons == {"start", "left", "right"}

\* clock advance between two iterations of loop()
DtSet == {Ms(30000), Ms(60000)}

MaxTime == MaxMinutes * Ms(60000)

\* what SerialBT holds at an iteration: nothing (available() is false) or a
\* next character
Received == {<<>>} \cup {<<c>> : c \in Alphabet}

IsPrefix(p, w) == Len(p) <= Len(w) /\ SubSeq(w, 1, Len(p)) = p

\* the buffer only ever holds the beginning of one of the Messages
Sendable(msg, rx) ==
    (rx # <<>> /\ rx[1] # "\n") => \E w \in Messages : IsPrefix(msg \o rx, w)

\* lines 163-172: one character is consumed per iteration when one is available
ReadBT(msg, rx) ==
    IF rx # <<>> THEN (IF rx[1] # "\n" THEN msg \o rx ELSE <<>>) ELSE msg

Toggle(btns, msg) == "start" \in btns \/ msg = <<"s">>

-----------------------------------------------------------------------------
(* The sketch *)

\* a remote duration taken as seconds
RemoteDuration_Seconds(msg) == ToULong(Ms(1000) * toInt(msg))

\* an increment of two minutes
Increase_TwoMinutes(d) == UAdd(d, Ms(120000))

\* timerDuration = 60000 * message.toInt();  (line 220)
RemoteDuration(msg) == ToULong(Ms(60000) * toInt(msg))

\* if(timerDuration >= 60000) { timerDuration -= 60000; }  (line 226)
Decrease(d) == IF d >= Ms(60000) THEN d - Ms(60000) ELSE d

\* timerDuration += 60000;  (line 232)
Increase(d) == UAdd(d, Ms(60000))

\* mode selection that takes a zero duration for a countdown
SelectMode_Swapped(d) == IF d = 0 THEN "CountDown" ELSE "CountUp"

\* mode selection that always counts down
SelectMode_AlwaysCountDown(d) == "CountDown"

\* if(timerDuration == 0) { mode = CountUp; } else { mode = CountDown; }
\* (lines 240-241)
SelectMode(d) == IF d = 0 THEN "CountUp" ELSE "CountDown"

\* history of the message buffer: the state found by the iteration that read
\* the first character of the current message, and whether no button has
\* been pressed since
NoMessage == [began |-> "none", quiet |-> TRUE]

NextMsgCtx(msg, st, btns) ==
    IF msg = <<>> THEN NoMessage
    ELSE IF message = <<>> THEN [began |-> st, quiet |-> btns = {}]
    ELSE [msgCtx EXCEPT !.quiet = @ /\ btns = {}]

Init ==
    /\ state = "Inactive"
    /\ mode = "CountUp"
    /\ timerDuration = 0
    /\ startTime = 0
    /\ cumulativeElapsedTime = 0
    /\ message = <<>>
    /\ timeValue = 0
    /\ timeHue = 170
    /\ pressed = {}
    /\ now = 0
    /\ began = "none"
    /\ msgCtx = NoMessage
    /\ sessionSum = 0
    /\ pc = "loop"
    /\ entry = <<>>
    /\ ret = <<>>

\* one iteration of loop() that finds state == Active (lines 183-212)
LoopActive ==
    /\ pc = "loop"
    /\ state = "Active"
    /\ \E dt \in DtSet, btns \in SUBSET Buttons, rx \in Received :
        /\ now + dt <= MaxTime
        /\ Sendable(message, rx)
        /\ LET msg == ReadBT(message, rx)
               currentTime == now + dt
               down == ToLong(USub(USub(timerDuration,
                                        USub(currentTime, startTime)),
                                   cumulativeElapsedTime))
               up == ToLong(UAdd(USub(currentTime, startTime),
                                 cumulativeElapsedTime))
               expired == mode = "CountDown" /\ down <= 0
               tv == IF mode = "CountDown"
                     THEN (IF expired THEN 0 ELSE down) ELSE up
               hue == IF mode = "CountDown"
                      THEN map(down, 0, ToLong(timerDuration), 0, 100) ELSE 0
               e1 == IF expired THEN [Engine EXCEPT !.state = "Inactive"]
                     ELSE Engine
               \* the toggle test is inside the Active branch: it also runs
               \* in the iteration in which the countdown expired
               e2 == IF Toggle(btns, msg) THEN Stop(e1, currentTime) ELSE e1
           IN  /\ message' = msg
               /\ pressed' = btns
               /\ now' = currentTime
               /\ timeValue' = tv
               /\ timeHue' = hue
               /\ state' = e2.state
               /\ mode' = e2.mode
               /\ timerDuration' = e2.timerDuration
               /\ startTime' = e2.startTime
               /\ cumulativeElapsedTime' = e2.cumulativeElapsedTime
               /\ began' = "Active"
               /\ msgCtx' = NextMsgCtx(msg, "Active", btns)
               /\ sessionSum' = IF Toggle(btns, msg)
                                THEN sessionSum + USub(currentTime, startTime)
                                ELSE sessionSum
    /\ UNCHANGED <<pc, entry, ret>>

\* one iteration of loop() that finds state == Inactive (lines 214-246)
LoopInactive ==
    /\ pc = "loop"
    /\ state = "Inactive"
    /\ \E dt \in DtSet, btns \in SUBSET Buttons, rx \in Received,
          hue \in IdleHues :
        /\ now + dt <= MaxTime
        /\ Sendable(message, rx)
        /\ LET msg == ReadBT(message, rx)
               currentTime == now + dt
               \* timerDuration = 60000 * message.toInt(); Reset();
               d0 == RemoteDuration(msg)
               e0 == Reset([Engine EXCEPT !.timerDuration = d0])
               \* btnLeft
               d1 == IF "left" \in btns THEN Decrease(d0) ELSE d0
               e1 == IF "left" \in btns
                     THEN Reset([e0 EXCEPT !.timerDuration = d1]) ELSE e0
               \* btnRight
               d2 == IF "right" \in btns THEN Increase(d1) ELSE d1
               e2 == IF "right" \in btns
                     THEN Reset([e1 EXCEPT !.timerDuration = d2]) ELSE e1
               \* btnStart or "s"
               e3 == IF Toggle(btns, msg)
                     THEN Start([e2 EXCEPT !.mode = SelectMode(d2)],
                                currentTime)
                     ELSE e2
               tv == ToLong(d2)
           IN  /\ message' = msg
               /\ pressed' = btns
               /\ now' = currentTime
               /\ timeValue' = tv
               /\ timeHue' = hue
               /\ state' = e3.state
               /\ mode' = e3.mode
               /\ timerDuration' = e3.timerDuration
               /\ startTime' = e3.startTime
               /\ cumulativeElapsedTime' = e3.cumulativeElapsedTime
               /\ began' = "Inactive"
               /\ msgCtx' = NextMsgCtx(msg, "Inactive", btns)
               /\ sessionSum' = IF "left" \in btns \/ "right" \in btns
                                   \/ d2 # timerDuration
                                THEN 0 ELSE sessionSum
    /\ UNCHANGED <<pc, entry, ret>>

Next == LoopActive \/ LoopInactive

Spec == Init /\ [][Next]_vars

-----------------------------------------------------------------------------
(* Reset() on its own, called from any engine state *)

\* sampled clock readings and durations
Times == {k * Ms(30000) : k \in 0..(2 * MaxMinutes)}

Durations == {0, Ms(60000), Ms(120000), RemoteDuration(<<"-", "1">>)}

InitReset ==
    /\ state \in {"Inactive", "Active"}
    /\ mode \in {"CountUp", "CountDown"}
    /\ timerDuration \in Durations
    /\ startTime \in Times
    /\ cumulativeElapsedTime \in Times
    /\ message = <<>>
    /\ timeValue = 0
    /\ timeHue = 170
    /\ pressed = {}
    /\ now = 0
    /\ began = "none"
    /\ msgCtx = NoMessage
    /\ sessionSum = 0
    /\ pc = "call Reset"
    /\ entry = Engine
    /\ ret = <<>>

ResetCall ==
    /\ pc = "call Reset"
    /\ LET e == Reset(Engine)
       IN  /\ state' = e.state
           /\ mode' = e.mode
           /\ timerDuration' = e.timerDuration
           /\ startTime' = e.startTime
           /\ cumulativeElapsedTime' = e.cumulativeElapsedTime
    /\ pc' = "return Reset"
    /\ UNCHANGED <<message, timeValue, timeHue, pressed, now, began, msgCtx,
                   sessionSum, entry, ret>>

SpecReset == InitReset /\ [][ResetCall]_vars

-----------------------------------------------------------------------------
(* setDigit() on its own, for every slot and digit value *)

\* a strip with every cell lit in one colour
Lit == [k \in 0..(NUM_LEDS - 1) |-> CHSV(96, 255, 255)]

InitDigit ==
    /\ state = "Inactive"
    /\ mode = "CountUp"
    /\ timerDuration = 0
    /\ startTime = 0
    /\ cumulativeElapsedTime = 0
    /\ message = <<>>
    /\ timeValue = 0
    /\ timeHue = 170
    /\ pressed = {}
    /\ now = 0
    /\ began = "none"
    /\ msgCtx = NoMessage
    /\ sessionSum = 0
    /\ pc = "call setDigit"
    /\ entry \in [leds : {Dark, Lit}, display : 0..3, val : 0..9,
                  colour : {CHSV(h, 255, 255) : h \in {0, 170}}]
    /\ ret = <<>>

SetDigitCall ==
    /\ pc = "call setDigit"
    /\ ret' = setDigit(entry.leds, entry.display, entry.val, entry.colour, 0)
    /\ pc' = "return setDigit"
    /\ UNCHANGED <<state, mode, timerDuration, startTime,
                   cumulativeElapsedTime, message, timeValue, timeHue,
                   pressed, now, began, msgCtx, sessionSum, entry>>

SpecDigit == InitDigit /\ [][SetDigitCall]_vars

-----------------------------------------------------------------------------
(* Claims *)

\* time the running session has lasted at the latest clock reading
SessionElapsed == USub(now, startTime)

\* C1: as long as Duration is not adjusted, CumulativeElapsed is the sum of
\* the lengths of the sessions that toggles have started and stopped, and a
\* CountUp session that follows a Stop shows that sum plus its own elapsed
\* time.
C1_ElapsedCarriesOver ==
    /\ cumulativeElapsedTime = sessionSum
    /\ (began = "Active" /\ state = "Active" /\ mode = "CountUp")
          => timeValue = sessionSum + SessionElapsed

\* C2: at the end of an iteration that leaves the engine Active in CountDown
\* mode the displayed value is not negative, and the first iteration that finds
\* (now - SessionStart) + CumulativeElapsed >= Duration shows 0 and leaves the
\* engine Inactive.
C2_CountDownClamped ==
    /\ []((state = "Active" /\ mode = "CountDown") => timeValue >= 0)
    /\ [][(state = "Active" /\ mode = "CountDown"
            /\ USub(now', startTime) + cumulativeElapsedTime >= timerDuration)
          => (timeValue' = 0 /\ state' = "Inactive")]_vars

\* C8: Duration is a non-negative multiple of 60000 ms in every reachable state.
C8_DurationWholeMinutes ==
    timerDuration >= 0 /\ timerDuration % Ms(60000) = 0

\* C9: the displayed value is never negative, whatever the state and mode.
C9_DisplayedNonNegative == timeValue >= 0

\* C3: Reset, called from any engine state, leaves CumulativeElapsed = 0 and
\* EngineState = Inactive and does not change Duration, Mode or SessionStart.
C3_ResetFrame ==
    pc = "return Reset" =>
        /\ cumulativeElapsedTime = 0
        /\ state = "Inactive"
        /\ timerDuration = entry.timerDuration
        /\ mode = entry.mode
        /\ startTime = entry.startTime

\* Reset has returned from a call made while Active in CountDown mode with
\* elapsed time on the books
C3_Witness ==
    /\ pc = "return Reset"
    /\ entry.state = "Active"
    /\ entry.mode = "CountDown"
    /\ entry.cumulativeElapsedTime > 0
    /\ entry.timerDuration = Ms(120000)
    /\ entry.startTime > 0

\* C4: in an iteration that finds the engine Inactive, a Decrease press takes
\* 60000 ms off the Duration the remote buffer gives when that is at least
\* 60000 ms and leaves it otherwise (never below 0), an Increase press adds
\* exactly 60000 ms, and Decrease acts before Increase when both are pressed;
\* an iteration that finds the engine Active leaves Duration unchanged
\* whatever is pressed.
C4_Adjustments ==
    [][LET base == ToULong(Ms(60000) * toInt(message'))
           floor == IF base >= Ms(60000) THEN base - Ms(60000) ELSE base
       IN  /\ state = "Active" => timerDuration' = timerDuration
           /\ state = "Inactive" =>
                /\ timerDuration' >= 0
                /\ ("left" \in pressed' /\ "right" \notin pressed')
                      => timerDuration' = floor
                /\ ("right" \in pressed' /\ "left" \notin pressed')
                      => timerDuration' = base + Ms(60000)
                /\ ("left" \in pressed' /\ "right" \in pressed')
                      => timerDuration' = floor + Ms(60000)
      ]_vars

\* C5: from Inactive with an empty remote buffer and no session started yet,
\* an idle iteration with an Increase press adds 60000 ms to the Duration
\* the previous iteration left, one with a Decrease press takes 60000 ms off
\* it (not below 0), one without button events keeps it, and
\* CumulativeElapsed is 0 afterwards: three Increase presses give 180000 ms,
\* a Decrease press then 120000 ms.
C5_AdjustmentsAccumulate ==
    [][(state = "Inactive" /\ startTime = 0 /\ message = <<>>
          /\ message' = <<>> /\ "start" \notin pressed')
       => /\ cumulativeElapsedTime' = 0
          /\ pressed' = {} => timerDuration' = timerDuration
          /\ pressed' = {"right"} => timerDuration' = timerDuration + Ms(60000)
          /\ pressed' = {"left"} =>
                timerDuration' = IF timerDuration >= Ms(60000)
                                 THEN timerDuration - Ms(60000)
                                 ELSE timerDuration
      ]_vars

\* C6: the iteration that consumes the newline after the message "2" while
\* Inactive, without Decrease or Increase, leaves Duration = 120000 ms, and a
\* Toggle in it starts a CountDown session showing 120000 ms.
C6_RemoteTwoMinutes ==
    [][(state = "Inactive" /\ message = <<"2">> /\ message' = <<>>
          /\ "left" \notin pressed' /\ "right" \notin pressed')
       => /\ timerDuration' = Ms(120000)
          /\ "start" \in pressed' =>
                (state' = "Active" /\ mode' = "CountDown"
                   /\ timeValue' = Ms(120000))
      ]_vars

\* C7: when the message "s" arrived while Inactive and no button has been
\* pressed since, the iteration that consumes its newline leaves the engine
\* Active in CountUp mode, however many iterations the message took.
C7_RemoteToggleOnce ==
    [][(message = <<"s">> /\ msgCtx.began = "Inactive" /\ msgCtx.quiet
          /\ message' = <<>> /\ pressed' = {})
       => (state' = "Active" /\ mode' = "CountUp")
      ]_vars

\* the segments of the seven-segment shape of each digit value
SevenSegment(v) ==
    CASE v = 0 -> {"A", "B", "C", "D", "E", "F"}
      [] v = 1 -> {"B", "C"}
      [] v = 2 -> {"A", "B", "D", "E", "G"}
      [] v = 3 -> {"A", "B", "C", "D", "G"}
      [] v = 4 -> {"B", "C", "F", "G"}
      [] v = 5 -> {"A", "C", "D", "F", "G"}
      [] v = 6 -> {"A", "C", "D", "E", "F", "G"}
      [] v = 7 -> {"A", "B", "C"}
      [] v = 8 -> {"A", "B", "C", "D", "E", "F", "G"}
      [] v = 9 -> {"A", "B", "C", "D", "F", "G"}

\* the cells of each segment under the wiring G->B->A->F->(unused)->E->D->C
SegmentCells(sg) ==
    CASE sg = "G" -> 0..3
      [] sg = "B" -> 4..7
      [] sg = "A" -> 8..11
      [] sg = "F" -> 12..15
      [] sg = "E" -> 17..20
      [] sg = "D" -> 21..24
      [] sg = "C" -> 25..28

\* C10: setDigit(display, v, colour) gives cell i of the slot brightness 255
\* when bit i of digits[v] is set and 0 otherwise, with the hue and saturation
\* of colour; the lit cells are exactly the cells of the segments of the
\* seven-segment shape of v, cells 16 and 29 are dark, and the cells of the
\* other slots keep what they had.
C10_SetDigitShape ==
    pc = "return setDigit" =>
        LET first == entry.display * NUM_LEDS_PER_DIGIT
            lit == {i \in 0..(NUM_LEDS_PER_DIGIT - 1) : ret[first + i].v = 255}
            dark == {i \in 0..(NUM_LEDS_PER_DIGIT - 1) : ret[first + i].v = 0}
            bits == {i \in 0..(NUM_LEDS_PER_DIGIT - 1) :
                        (digits[entry.val] \div 2^i) % 2 = 1}
        IN  /\ lit = bits
            /\ dark = (0..(NUM_LEDS_PER_DIGIT - 1)) \ bits
            /\ \A i \in 0..(NUM_LEDS_PER_DIGIT - 1) :
                  /\ ret[first + i].h = entry.colour.h
                  /\ ret[first + i].s = entry.colour.s
            /\ lit = UNION {SegmentCells(sg) : sg \in SevenSegment(entry.val)}
            /\ 16 \notin lit /\ 29 \notin lit
            /\ \A k \in 0..(NUM_LEDS - 1) :
                  k \notin first..(first + NUM_LEDS_PER_DIGIT - 1)
                     => ret[k] = entry.leds[k]

\* setDigit has drawn a 2 in slot 3 of a strip that was fully lit: segment
\* cells lit, the cells of C and F dark, slot 0 as it was
C10_Witness ==
    /\ pc = "return setDigit"
    /\ entry.display = 3 /\ entry.val = 2 /\ entry.leds = Lit
    /\ ret[3 * NUM_LEDS_PER_DIGIT + 0].v = 255
    /\ ret[3 * NUM_LEDS_PER_DIGIT + 25].v = 0
    /\ ret[3 * NUM_LEDS_PER_DIGIT + 12].v = 0
    /\ ret[0] = Lit[0]

\* C11: an iteration that takes the engine from Inactive to Active (a Start)
\* leaves mode = CountUp when the Duration it starts with is 0 and CountDown
\* otherwise; an iteration that finds the engine Active changes neither mode
\* nor timerDuration, whatever buttons are down and whatever byte is read.
C11_ModeFixedAtStart ==
    [][ /\ (state = "Inactive" /\ state' = "Active")
            => mode' = (IF timerDuration' = 0 THEN "CountUp" ELSE "CountDown")
        /\ state = "Active"
            => (mode' = mode /\ timerDuration' = timerDuration) ]_vars

\* a one-minute countdown that has just gone through an iteration in which
\* Increase was down and the remote buffer holds "2", and is still Active
\* with its mode and Duration
C11_Witness ==
    /\ began = "Active"
    /\ state = "Active"
    /\ mode = "CountDown"
    /\ timerDuration = Ms(60000)
    /\ "right" \in pressed
    /\ message = <<"2">>

\* C12: one iteration applies at most one Start or Stop.  An iteration that
\* finds the engine Active applies no Start (startTime is not taken again),
\* and unless it ends Inactive it leaves the accumulated time alone; an
\* iteration that finds the engine Inactive applies no Stop (nothing is
\* added to the accumulated time, which Reset has zeroed).  An iteration in
\* which the countdown expires while a toggle is pending ends Inactive with
\* the time of the session added to the accumulated time once.
C12_OneTransitionPerTick ==
    [][ /\ state = "Active" => startTime' = startTime
        /\ (state = "Active" /\ state' = "Active")
            => cumulativeElapsedTime' = cumulativeElapsedTime
        /\ state = "Inactive"
            => /\ cumulativeElapsedTime' = 0
               /\ state' = "Active" => startTime' = now'
        /\ ( /\ state = "Active"
             /\ mode = "CountDown"
             /\ ToLong(USub(USub(timerDuration, USub(now', startTime)),
                            cumulativeElapsedTime)) <= 0
             /\ Toggle(pressed', message') )
            => /\ state' = "Inactive"
               /\ cumulativeElapsedTime'
                      = UAdd(cumulativeElapsedTime, USub(now', startTime)) ]_vars

\* the end of an iteration in which a one-minute countdown expired with the
\* Start button down: Inactive, the session's minute added once
C12_Witness ==
    /\ began = "Active"
    /\ state = "Inactive"
    /\ mode = "CountDown"
    /\ timerDuration = Ms(60000)
    /\ timeValue = 0
    /\ "start" \in pressed
    /\ now - startTime = Ms(60000)
    /\ cumulativeElapsedTime = Ms(60000)

\* a decimal integer string: an optional sign, then digits only
IsDecimalInteger(s) ==
    LET body == IF s # <<>> /\ s[1] \in {"-", "+"} THEN Tail(s) ELSE s
    IN  body # <<>> /\ \A i \in 1..Len(body) : IsDigit(body[i])

\* C13: at the end of an iteration that found the engine Inactive, with
\* neither adjustment button down, a remote buffer that is neither a
\* decimal integer string nor "s" (the empty buffer included) has given
\* Duration = 0.
C13_OtherContentIsZero ==
    ( /\ began = "Inactive"
      /\ ~IsDecimalInteger(message)
      /\ message # <<"s">>
      /\ "left" \notin pressed
      /\ "right" \notin pressed )
        => timerDuration = 0

C15_InactiveShowsDuration ==
    state = "Inactive" => timeValue = timerDuration

\* C16: every iteration that takes the engine from Active to Inactive, by a
\* toggle or by the expiry of the countdown, adds now - startTime to the
\* accumulated time, once.
C16_StopAccumulatesOnce ==
    [][ (state = "Active" /\ state' = "Inactive")
          => cumulativeElapsedTime'
                 = cumulativeElapsedTime + USub(now', startTime) ]_vars

C18_DigitValuesInRange ==
    \A slot \in 1..4 : DigitArgs(timeValue)[slot] \in 0..9

\* C19: whenever the engine is Active in CountDown mode, Duration > 0, and
\* the input range timerDuration - 0 that map() divides by at line 192 is
\* not zero.
C19_CountDownHasDuration ==
    (state = "Active" /\ mode = "CountDown")
        => (timerDuration > 0 /\ ToLong(timerDuration) - 0 # 0)

\* a two-minute countdown half way: the hue has been interpolated to 50
C19_Witness ==
    /\ state = "Active"
    /\ began = "Active"
    /\ mode = "CountDown"
    /\ timerDuration = Ms(120000)
    /\ timeValue = Ms(60000)
    /\ timeHue = 50

\* C20 as stated: every iteration that starts the engine without the Start
\* button down (the start comes from the remote buffer "s") selects CountUp
\* with Duration = 0.
C20_RemoteStartCountsUp ==
    [][ (state = "Inactive" /\ state' = "Active" /\ "start" \notin pressed')
          => (mode' = "CountUp" /\ timerDuration' = 0) ]_vars

\* C20: every iteration that starts the engine without the Start button
\* down has "s" in the remote buffer and starts from the Duration 0 parsed
\* from it, whatever Duration was set before: CountUp with Duration = 0,
\* unless Increase is down in that iteration, and then CountDown with
\* Duration = 60000.
C20_RemoteStartFromZero ==
    [][ (state = "Inactive" /\ state' = "Active" /\ "start" \notin pressed')
          => /\ message' = <<"s">>
             /\ IF "right" \in pressed'
                THEN mode' = "CountDown" /\ timerDuration' = Ms(60000)
                ELSE mode' = "CountUp" /\ timerDuration' = 0 ]_vars

\* a session started by the remote "s" with Increase down
C20_Witness ==
    /\ began = "Inactive"
    /\ state = "Active"
    /\ message = <<"s">>
    /\ pressed = {"right"}
    /\ mode = "CountDown"
    /\ timerDuration = Ms(60000)
    /\ startTime = now

====
